---- MODULE Spec2Model ----
(***************************************************************************)
(* A model of sdf-csv-join.py: the SDF parser, the CSV reader, the row     *)
(* type factory, the joiner with its numeric-aware sort, and main's        *)
(* pipeline.                                                               *)
(*                                                                         *)
(* Strings are sequences of one-character strings, so that the header      *)
(* regular expression, rstrip, split, the identifier test of namedtuple    *)
(* and int(s, base=10) are computed character by character.  Python's None *)
(* is the sequence <<"None">>, which no string equals.  A dict is a        *)
(* function; a line of an SDF file is a string without its line            *)
(* terminator; a CSV file is the sequence of rows csv.reader yields under  *)
(* the sniffed dialect (a blank line is the empty row).                    *)
(***************************************************************************)
EXTENDS Integers, Sequences, FiniteSets, TLC

VARIABLES
    pc,           \* position in the operation under way
    args,         \* the inputs of the operation (argparse's args, or a call's arguments)
    row_type,     \* create_row_type's return value
    haystack,     \* main's haystack mapping
    needle,       \* main's set of needle identifiers
    n_read,       \* number of needle files read so far
    ret,          \* the exception that ended the run; a direct call's outcome
    result,       \* main's result table
    stdout,       \* what print_table has printed, one entry per call
    outfile       \* what write_output_file has written, one entry per call

vars == <<pc, args, row_type, haystack, needle, n_read, ret, result, stdout, outfile>>

(***************************** bounds **************************************)
MaxSdfLines == 4
MaxCsvRows == 3
MaxProps == 2
MaxNeedleFiles == 2

(************************** strings and None *******************************)
None == <<"None">>

EmptyStr == <<>>

ID == <<"I", "D">>
MW == <<"M", "W">>
M_W == <<"M", "-", "W">>
S2 == <<"2">>
S10 == <<"1", "0">>

Whitespace == {" "}

DigitChars == <<"0", "1", "2", "3", "4", "5", "6", "7", "8", "9">>

IsDigit(c) == \E d \in 1..Len(DigitChars) : DigitChars[d] = c

DigitVal(c) == (CHOOSE d \in 1..Len(DigitChars) : DigitChars[d] = c) - 1

Letters == {"A", "B", "D", "I", "M", "W", "f", "i", "x"}

\* str.isalnum() of one character
IsAlnum(c) == c \in Letters \/ IsDigit(c)

\* the byte value of a character: Python 2 compares str values byte by byte
Ord(c) ==
    CASE c = " " -> 32 [] c = "(" -> 40 [] c = ")" -> 41 [] c = "," -> 44
      [] c = "-" -> 45 [] c = "<" -> 60 [] c = ">" -> 62 [] c = "_" -> 95
      [] IsDigit(c) -> 48 + DigitVal(c)
      [] c = "A" -> 65 [] c = "B" -> 66 [] c = "D" -> 68 [] c = "I" -> 73
      [] c = "M" -> 77 [] c = "W" -> 87 [] c = "f" -> 102 [] c = "i" -> 105
      [] c = "x" -> 120

Range(s) == {s[i] : i \in 1..Len(s)}

Min(S) == CHOOSE x \in S : \A y \in S : x <= y

Max(S) == CHOOSE x \in S : \A y \in S : x >= y

\* all sequences over S of length at most n
RECURSIVE SeqsUpTo(_, _)
SeqsUpTo(S, n) ==
    IF n = 0 THEN {<<>>}
    ELSE LET shorter == SeqsUpTo(S, n - 1)
         IN shorter \cup {Append(s, x) : s \in {t \in shorter : Len(t) = n - 1}, x \in S}

\* str.rstrip(): trailing whitespace removed
RECURSIVE rstrip(_)
rstrip(s) ==
    IF s # <<>> /\ s[Len(s)] \in Whitespace THEN rstrip(SubSeq(s, 1, Len(s) - 1)) ELSE s

\* str.lstrip()
RECURSIVE lstrip(_)
lstrip(s) ==
    IF s # <<>> /\ s[1] \in Whitespace THEN lstrip(Tail(s)) ELSE s

\* dict.get(key, default)
Get(d, key, default) == IF key \in DOMAIN d THEN d[key] ELSE default

\* d[key] = value
Put(d, key, value) == [k \in DOMAIN d \cup {key} |-> IF k = key THEN value ELSE d[k]]

EmptyDict == [k \in {} |-> None]

(****************************** results ************************************)
\* a call's outcome: its return value, or the exception it raised
Ok(v) == [err |-> "none", val |-> v]

Raise(e) == [err |-> e, val |-> EmptyDict]

(*************************** SDF_HEADER_RE *********************************)
\* the position after \s* matched greedily from position i of s
SkipWs(s, i) ==
    CHOOSE j \in i..(Len(s) + 1) :
        /\ \A k \in i..(j - 1) : s[k] \in Whitespace
        /\ j = Len(s) + 1 \/ s[j] \notin Whitespace

\* \)\s*$ matches at position j
CloseAt(s, j) == j <= Len(s) /\ s[j] = ")" /\ SkipWs(s, j + 1) = Len(s) + 1

\* >\s*(?:\((.*?)\)\s*)?$ matches at position j
TailAt(s, j) ==
    /\ j <= Len(s)
    /\ s[j] = ">"
    /\ LET k == SkipWs(s, j + 1)
       IN \/ k = Len(s) + 1
          \/ s[k] = "(" /\ \E m \in (k + 1)..Len(s) : CloseAt(s, m)

\* ^>\s*< matches and the rest has a tail
HeaderMatches(s) ==
    /\ Len(s) >= 1
    /\ s[1] = ">"
    /\ LET a == SkipWs(s, 2)
       IN a <= Len(s) /\ s[a] = "<" /\ \E j \in (a + 1)..Len(s) : TailAt(s, j)

\* m.group(1): the non-greedy (.*?) ends at the first position with a tail
HeaderProp(s) ==
    LET a == SkipWs(s, 2)
        j == Min({x \in (a + 1)..Len(s) : TailAt(s, x)})
    IN SubSeq(s, a + 1, j - 1)

\* m.group(2); None when the optional group did not take part
HeaderGroup2(s) ==
    LET a == SkipWs(s, 2)
        j == Min({x \in (a + 1)..Len(s) : TailAt(s, x)})
        k == SkipWs(s, j + 1)
    IN IF k = Len(s) + 1 THEN None
       ELSE SubSeq(s, k + 1, Min({m \in (k + 1)..Len(s) : CloseAt(s, m)}) - 1)

\* mol = m.group(2) or None
HeaderMol(s) == IF HeaderGroup2(s) = EmptyStr THEN None ELSE HeaderGroup2(s)

(****************************** parse_sdf **********************************)
\* a check that passes the molecules without the ID property
SdfCheck_Present(mols, id_prop) ==
    IF \E mol \in DOMAIN mols : id_prop \in DOMAIN mols[mol] /\ mols[mol][id_prop] # mol
    THEN Raise("ValueError: ID mismatch")
    ELSE Ok(mols)

\* the check after the loop: props.get(id_prop) != mol for some molecule
SdfCheck(mols, id_prop) ==
    IF \E mol \in DOMAIN mols : Get(mols[mol], id_prop, None) # mol
    THEN Raise("ValueError: ID mismatch")
    ELSE Ok(mols)

\* a parser that lets a repeated property replace the earlier value
SdfStore_Overwrite(mols, mol, prop, value) ==
    Ok(Put(mols, mol, Put(Get(mols, mol, EmptyDict), prop, value)))

\* one molecule's property recorded, or the conflict
SdfStore(mols, mol, prop, value) ==
    LET props == Get(mols, mol, EmptyDict)
    IN IF prop \in DOMAIN props
       THEN Raise("ValueError: Conflicting property name")
       ELSE Ok(Put(mols, mol, Put(props, prop, value)))

\* the loop over the file's lines from line i on, then the check
RECURSIVE SdfLoop(_, _, _, _)
SdfLoop(lines, i, mols, id_prop) ==
    IF i > Len(lines) THEN SdfCheck(mols, id_prop)
    ELSE IF ~HeaderMatches(lines[i]) THEN SdfLoop(lines, i + 1, mols, id_prop)
    ELSE IF i + 1 > Len(lines) THEN Raise("StopIteration")
    ELSE LET stored == SdfStore(mols, HeaderMol(lines[i]), HeaderProp(lines[i]),
                                rstrip(lines[i + 1]))
         IN IF stored.err # "none" THEN stored
            ELSE SdfLoop(lines, i + 2, stored.val, id_prop)

parse_sdf(lines, id_prop) == SdfLoop(lines, 1, EmptyDict, id_prop)

(******************************* read_csv **********************************)
\* csv.DictReader's row: dict(zip(fieldnames, row)), the surplus cells under
\* restkey (None), the missing ones set to restval (None)
DictRow(fieldnames, row) ==
    LET lf == Len(fieldnames)
        lr == Len(row)
        n == IF lf < lr THEN lf ELSE lr
        zipped == [k \in {fieldnames[i] : i \in 1..n} |->
                      row[Max({i \in 1..n : fieldnames[i] = k})]]
        missing == {fieldnames[i] : i \in (lr + 1)..lf}
    IN IF lf < lr THEN Put(zipped, None, SubSeq(row, lf + 1, lr))
       ELSE [k \in DOMAIN zipped \cup missing |-> IF k \in missing THEN None ELSE zipped[k]]

\* a reader that keeps the first row of an ID
CsvStore_KeepFirst(mols, mol, row) == IF mol \in DOMAIN mols THEN mols ELSE Put(mols, mol, row)

\* result[mol] = row
CsvStore(mols, mol, row) == Put(mols, mol, row)

\* for row in reader: mol = row[id_prop]; mols[mol] = row
RECURSIVE CsvLoop(_, _, _, _, _)
CsvLoop(rows, i, fieldnames, id_prop, mols) ==
    IF i > Len(rows) THEN Ok(mols)
    ELSE IF rows[i] = <<>> THEN CsvLoop(rows, i + 1, fieldnames, id_prop, mols)
    ELSE LET row == DictRow(fieldnames, rows[i])
         IN IF id_prop \notin DOMAIN row THEN Raise("KeyError")
            ELSE CsvLoop(rows, i + 1, fieldnames, id_prop, CsvStore(mols, row[id_prop], row))

\* the reader re-created with prop_names as field names when the first row
\* is not empty and does not hold the ID column
CsvHeaderless(rows, id_prop) ==
    rows # <<>> /\ rows[1] # <<>> /\ id_prop \notin Range(rows[1])

read_csv(rows, prop_names) ==
    LET id_prop == prop_names[1]
    IN IF rows = <<>> THEN Ok(EmptyDict)
       ELSE IF CsvHeaderless(rows, id_prop)
            THEN CsvLoop(rows, 1, prop_names, id_prop, EmptyDict)
            ELSE CsvLoop(rows, 2, rows[1], id_prop, EmptyDict)

(**************************** read_input_file ******************************)
read_input_file(file, prop_names) ==
    IF file.ext = ".csv" THEN read_csv(file.content, prop_names)
    ELSE parse_sdf(file.content, prop_names[1])

(**************************** create_row_type ******************************)
\* prop_names.replace(',', ' ')
ReplaceCommas(s) == [i \in 1..Len(s) |-> IF s[i] = "," THEN " " ELSE s[i]]

\* the length of the run of non-whitespace characters s starts with
RECURSIVE WordLen(_)
WordLen(s) == IF s = <<>> \/ s[1] \in Whitespace THEN 0 ELSE 1 + WordLen(Tail(s))

\* str.split(): the maximal runs of non-whitespace characters
RECURSIVE Split(_)
Split(s) ==
    LET t == lstrip(s)
    IN IF t = <<>> THEN <<>>
       ELSE <<SubSeq(t, 1, WordLen(t))>> \o Split(SubSeq(t, WordLen(t) + 1, Len(t)))

\* '%d' % n for n >= 0
RECURSIVE IntToStr(_)
IntToStr(n) ==
    IF n < 10 THEN <<DigitChars[n + 1]>>
    ELSE Append(IntToStr(n \div 10), DigitChars[(n % 10) + 1])

\* keyword.kwlist, the words spelled with the model's letters
Keywords == {<<"i", "f">>}

\* namedtuple's test under rename=True of the name at 0-based position i
MustRename(names, i) ==
    LET name == names[i + 1]
    IN \/ \E k \in 1..Len(name) : ~(IsAlnum(name[k]) \/ name[k] = "_")
       \/ name \in Keywords
       \/ name = <<>>
       \/ IsDigit(name[1])
       \/ name[1] = "_"
       \/ \E j \in 1..i : names[j] = name

\* the field names namedtuple('Row', names, rename=True) gives the type
RenamedFields(names) ==
    [k \in 1..Len(names) |->
        IF MustRename(names, k - 1) THEN <<"_">> \o IntToStr(k - 1) ELSE names[k]]

\* a factory that removes only the first occurrence of the ID column
RECURSIVE WithoutFirstName(_, _)
WithoutFirstName(names, id_prop) ==
    IF names = <<>> THEN <<>>
    ELSE IF names[1] = id_prop THEN Tail(names)
    ELSE <<names[1]>> \o WithoutFirstName(Tail(names), id_prop)

\* [id_prop] + [n for n in prop_names if n != id_prop]
RECURSIVE WithoutName(_, _)
WithoutName(names, id_prop) ==
    IF names = <<>> THEN <<>>
    ELSE (IF names[1] = id_prop THEN <<>> ELSE <<names[1]>>)
         \o WithoutName(Tail(names), id_prop)

create_row_type(prop_names, id_prop) ==
    LET split == Split(ReplaceCommas(prop_names))
        names == IF id_prop # None THEN <<id_prop>> \o WithoutName(split, id_prop)
                 ELSE split
    IN [fields |-> RenamedFields(names), prop_names |-> names]

(****************************** int(s, base=10) ****************************)
RECURSIVE DigitsValue(_)
DigitsValue(s) ==
    IF s = <<>> THEN 0
    ELSE 10 * DigitsValue(SubSeq(s, 1, Len(s) - 1)) + DigitVal(s[Len(s)])

\* int(s, base=10) of a str: surrounding whitespace stripped, an optional
\* sign, then one or more decimal digits; anything else is a ValueError
IntParse(s) ==
    LET t == rstrip(lstrip(s))
        signed == t # <<>> /\ t[1] \in {"+", "-"}
        digits == IF signed THEN Tail(t) ELSE t
    IN IF digits # <<>> /\ \A k \in 1..Len(digits) : IsDigit(digits[k])
       THEN [ok |-> TRUE,
             val |-> IF signed /\ t[1] = "-" THEN 0 - DigitsValue(digits)
                     ELSE DigitsValue(digits)]
       ELSE [ok |-> FALSE, val |-> 0]

(************************ Python 2 ordering of keys ************************)
\* an element of a sort key: None (t = 0), an int (t = 1) or a str (t = 2).
\* Python 2 orders None before every number and every number before every str
NoneElem == [t |-> 0, i |-> 0, s |-> <<>>]

IntElem(n) == [t |-> 1, i |-> n, s |-> <<>>]

StrElem(str) == [t |-> 2, i |-> 0, s |-> str]

\* a < b for two str values: byte-wise lexicographic
StrLess(a, b) ==
    \E k \in 1..(Len(b)) :
        /\ \A j \in 1..(k - 1) : j <= Len(a) /\ a[j] = b[j]
        /\ k > Len(a) \/ (k <= Len(a) /\ Ord(a[k]) < Ord(b[k]))

ElemLess(a, b) ==
    \/ a.t < b.t
    \/ a.t = b.t /\ a.t = 1 /\ a.i < b.i
    \/ a.t = b.t /\ a.t = 2 /\ StrLess(a.s, b.s)

\* x < y for two lists: decided at the first position where they differ
ListLess(x, y) ==
    \E k \in 1..Len(y) :
        /\ \A j \in 1..(k - 1) : j <= Len(x) /\ x[j] = y[j]
        /\ k > Len(x) \/ (k <= Len(x) /\ ElemLess(x[k], y[k]))

(****************************** join_results *******************************)
\* an entry of the result table: the identifier and its row, or None for it
RowItem(mol, cells) == [mol |-> mol, is_none |-> FALSE, row |-> cells]

NoneItem(mol) == [mol |-> mol, is_none |-> TRUE, row |-> <<>>]

\* row_type(**kwargs): every field must be given and no other keyword
NewRow(rt, kwargs) ==
    IF DOMAIN kwargs = Range(rt.fields)
    THEN Ok([k \in 1..Len(rt.fields) |-> kwargs[rt.fields[k]]])
    ELSE Raise("TypeError")

\* dict((prop, props.get(prop, '')) for prop in row_type._prop_names)
RowKwargs(props, rt) == [prop \in Range(rt.prop_names) |-> Get(props, prop, EmptyStr)]

\* a key that compares every cell as a str
CellKey_Str(cell) == StrElem(cell)

\* the key of one non-ID cell: int(prop, base=10), the cell itself on ValueError
CellKey(cell) ==
    IF IntParse(cell).ok THEN IntElem(IntParse(cell).val) ELSE StrElem(cell)

\* a key without the ID column as the last element
sort_key_NoId(item) ==
    IF item.is_none THEN Raise("TypeError")
    ELSE IF \E k \in 2..Len(item.row) : item.row[k] = None THEN Raise("TypeError")
    ELSE Ok([k \in 1..(Len(item.row) - 1) |-> CellKey(item.row[k + 1])])

\* the non-ID cells' keys followed by row[0]; a TypeError for a None row
\* (None[1:]) and for a None cell (int(None, base=10))
sort_key(item) ==
    IF item.is_none THEN Raise("TypeError")
    ELSE IF \E k \in 2..Len(item.row) : item.row[k] = None THEN Raise("TypeError")
    ELSE Ok([k \in 1..Len(item.row) |->
                IF k < Len(item.row) THEN CellKey(item.row[k + 1])
                ELSE IF item.row[1] = None THEN NoneElem ELSE StrElem(item.row[1])])

\* one item inserted into a sorted list after the items that are not greater
RECURSIVE InsertSorted(_, _)
InsertSorted(sorted, item) ==
    IF sorted = <<>> THEN <<item>>
    ELSE IF ListLess(sort_key(item).val, sort_key(sorted[1]).val)
         THEN <<item>> \o sorted
         ELSE <<sorted[1]>> \o InsertSorted(Tail(sorted), item)

RECURSIVE SortItems(_)
SortItems(items) ==
    IF items = <<>> THEN <<>>
    ELSE InsertSorted(SortItems(SubSeq(items, 1, Len(items) - 1)), items[Len(items)])

\* sorted(items, key=sort_key): stable; the key function's exception is raised
Sorted(items) ==
    IF \E k \in 1..Len(items) : sort_key(items[k]).err # "none" THEN Raise("TypeError")
    ELSE Ok(SortItems(items))

\* a joiner that gives every identifier of the haystack an entry
JoinKeys_Haystack(haystack_, needle_, include_none) == DOMAIN haystack_

\* the identifiers the loop over the needle gives an entry
JoinKeys(haystack_, needle_, include_none) ==
    IF include_none THEN needle_ ELSE needle_ \cap DOMAIN haystack_

\* the dict the loop over the needle builds; row_type's TypeError is raised
\* at the first identifier found in the haystack
JoinDict(haystack_, needle_, rt, include_none) ==
    IF \E mol \in needle_ \cap DOMAIN haystack_ :
          NewRow(rt, RowKwargs(haystack_[mol], rt)).err # "none"
    THEN Raise("TypeError")
    ELSE Ok([mol \in JoinKeys(haystack_, needle_, include_none) |->
                IF mol \in DOMAIN haystack_
                THEN RowItem(mol, NewRow(rt, RowKwargs(haystack_[mol], rt)).val)
                ELSE NoneItem(mol)])

\* order: the identifiers of the dict in the order result.iteritems() yields
\* them, which is any order
join_results(haystack_, needle_, rt, include_none, order) ==
    LET built == JoinDict(haystack_, needle_, rt, include_none)
    IN IF built.err # "none" THEN built
       ELSE Sorted([k \in 1..Len(order) |-> built.val[order[k]]])

(******************************** writers **********************************)
\* print_table: len() of a None cell is a TypeError, raised before any print
print_table(table, rt) ==
    IF \E k \in 1..Len(table) :
          table[k].is_none \/ \E c \in 1..Len(table[k].row) : table[k].row[c] = None
    THEN Raise("TypeError")
    ELSE Ok([header |-> rt.prop_names,
             rows |-> [k \in 1..Len(table) |-> table[k].row],
             col_width |-> [c \in 1..Len(rt.prop_names) |->
                 Max({Len(rt.prop_names[c])} \cup {Len(table[k].row[c]) : k \in 1..Len(table)})],
             total |-> Len(table)])

write_csv(table, rt) ==
    [kind |-> "csv", header |-> rt.prop_names, rows |-> [k \in 1..Len(table) |-> table[k].row]]

write_lst(table, rt) ==
    [kind |-> "lst", header |-> <<>>, rows |-> [k \in 1..Len(table) |-> table[k].mol]]

write_output_file(ext, table, rt) ==
    IF ext = ".csv" THEN write_csv(table, rt) ELSE write_lst(table, rt)

(******************************** inputs ***********************************)
\* lines of SDF files: > <ID> (2), > <MW> (2), ><ID>(10), > <MW>, > <MW> (),
\* and the values 2 and 10 followed by a blank
SdfLines ==
    { <<">", " ", "<", "I", "D", ">", " ", "(", "2", ")">>,
      <<">", " ", "<", "M", "W", ">", " ", "(", "2", ")">>,
      <<">", "<", "I", "D", ">", "(", "1", "0", ")">>,
      <<">", " ", "<", "M", "W", ">">>,
      <<">", " ", "<", "M", "W", ">", " ", "(", ")">>,
      <<"2">>,
      <<"1", "0", " ">> }

\* rows of CSV files: the blank line, header rows and data rows
CsvRows ==
    { <<>>, <<ID>>, <<ID, MW>>,
      <<S2>>, <<S10>>, <<S2, S10>>, <<S10, S2>>, <<S2, S2>> }

InputFiles ==
    [ext : {".csv"}, content : SeqsUpTo(CsvRows, MaxCsvRows)]
    \cup [ext : {".sdf"}, content : SeqsUpTo(SdfLines, MaxSdfLines)]
    \cup [ext : {".txt"}, content : SeqsUpTo(SdfLines, 1)]

\* the -p and -i options main is run with, and the extension of -o
MainProps == {EmptyStr, MW, M_W}

MainIds == {ID}

MainOutputs == {"None", ".csv", ".lst"}

MainRowTypes == {create_row_type(p, i) : p \in MainProps, i \in MainIds}

MainPropNames == {rt.prop_names : rt \in MainRowTypes}

\* the column lists read_input_file is called with directly: main's, and
\* that of -i MW -p ID
ReadPropNames == MainPropNames \cup {<<MW, ID>>}

\* what read_input_file gives over all the input files, per column list
ReadTable ==
    {[prop_names |-> pn, ret |-> read_input_file(f, pn)] : pn \in MainPropNames, f \in InputFiles}

ReadResults(prop_names) == {e.ret : e \in {x \in ReadTable : x.prop_names = prop_names}}

\* set(read_input_file(...)) over all the input files: the exception, or the
\* identifiers
NeedleTable ==
    {[prop_names |-> e.prop_names, err |-> e.ret.err, keys |-> DOMAIN e.ret.val] :
        e \in ReadTable}

NeedleResults(prop_names) == {x \in NeedleTable : x.prop_names = prop_names}

\* the property specifications create_row_type is tried on: up to MaxProps
\* words joined by a separator
Words == {ID, MW, M_W, <<"2", "W">>, <<"_", "W">>, <<"i", "f">>}

Separators == {<<",">>, <<" ">>, <<",", " ">>}

RowIds == {ID, MW}

RECURSIVE JoinWords(_, _)
JoinWords(words, sep) ==
    IF words = <<>> THEN <<>>
    ELSE IF Len(words) = 1 THEN words[1]
    ELSE words[1] \o sep \o JoinWords(Tail(words), sep)

\* the orders a set can be iterated in
Perms(S) == {s \in [1..Cardinality(S) -> S] : Range(s) = S}

JoinNeedleIds == {S2, S10, None}

(******************************* actions ***********************************)
\* row_type = create_row_type(args.props, id_prop=args.id)
CreateRowType ==
    /\ pc = "create_row_type"
    /\ row_type' = create_row_type(args.props, args.id)
    /\ pc' = "read_haystack"
    /\ UNCHANGED <<args, haystack, needle, n_read, ret, result, stdout, outfile>>

\* a main that goes on after an exception
AfterCall_Ignore(r, next) == next

\* where main goes on after a call: an exception ends the run
AfterCall(r, next) == IF r.err # "none" THEN "crashed" ELSE next

\* the exception a call raised is kept in ret
Raised(r, old) == IF r.err # "none" THEN Raise(r.err) ELSE old

\* haystack = read_input_file(args.haystack_file, row_type._prop_names)
ReadHaystack ==
    /\ pc = "read_haystack"
    /\ \E r \in ReadResults(row_type.prop_names) :
          /\ ret' = Raised(r, ret)
          /\ haystack' = IF r.err = "none" THEN r.val ELSE haystack
          /\ pc' = AfterCall(r, "read_needles")
    /\ UNCHANGED <<args, row_type, needle, n_read, result, stdout, outfile>>

\* needle |= set(read_input_file(needle_file, row_type._prop_names))
ReadNeedle ==
    /\ pc = "read_needles"
    /\ n_read < MaxNeedleFiles
    /\ \E r \in NeedleResults(row_type.prop_names) :
          /\ ret' = Raised(r, ret)
          /\ needle' = IF r.err = "none" THEN needle \cup r.keys ELSE needle
          /\ pc' = AfterCall(r, "read_needles")
    /\ n_read' = n_read + 1
    /\ UNCHANGED <<args, row_type, haystack, result, stdout, outfile>>

\* result = join_results(haystack, needle, row_type, include_none), after
\* the last of the one or more needle files
Join(include_none) ==
    /\ pc = "read_needles"
    /\ n_read >= 1
    /\ \E order \in Perms(JoinKeys(haystack, needle, include_none)) :
          /\ LET r == join_results(haystack, needle, row_type, include_none, order)
             IN /\ ret' = Raised(r, ret)
                /\ result' = IF r.err = "none" THEN r.val ELSE result
                /\ pc' = AfterCall(r, "print")
    /\ UNCHANGED <<args, row_type, haystack, needle, n_read, stdout, outfile>>

\* main calls join_results without include_none: its default is False
MainJoin == Join(FALSE)

\* a direct call of join_results(haystack, needle, row_type, include_none)
CallJoin == Join(args.include_none)

\* print_table(result, row_type)
PrintTable ==
    /\ pc = "print"
    /\ LET r == print_table(result, row_type)
       IN /\ ret' = Raised(r, ret)
          /\ stdout' = IF r.err = "none" THEN Append(stdout, r.val) ELSE stdout
          /\ pc' = AfterCall(r, IF args.output = "None" THEN "done" ELSE "write")
    /\ UNCHANGED <<args, row_type, haystack, needle, n_read, result, outfile>>

\* if args.output is not None: write_output_file(args.output, result, row_type)
WriteOutput ==
    /\ pc = "write"
    /\ outfile' = Append(outfile, write_output_file(args.output, result, row_type))
    /\ pc' = "done"
    /\ UNCHANGED <<args, row_type, haystack, needle, n_read, ret, result, stdout>>

\* a call of read_input_file(args.file, args.prop_names)
CallReadInputFile ==
    /\ pc = "read_input_file"
    /\ ret' = read_input_file(args.file, args.prop_names)
    /\ pc' = "done"
    /\ UNCHANGED <<args, row_type, haystack, needle, n_read, result, stdout, outfile>>

(**************************** specifications *******************************)
NoRowType == [fields |-> <<>>, prop_names |-> <<>>]

\* main
Init ==
    /\ pc = "create_row_type"
    /\ args \in [props : MainProps, id : MainIds, output : MainOutputs]
    /\ row_type = NoRowType
    /\ haystack = EmptyDict
    /\ needle = {}
    /\ n_read = 0
    /\ ret = Ok(EmptyDict)
    /\ result = <<>>
    /\ stdout = <<>>
    /\ outfile = <<>>

Next == CreateRowType \/ ReadHaystack \/ ReadNeedle \/ MainJoin \/ PrintTable \/ WriteOutput

Spec == Init /\ [][Next]_vars

\* read_input_file on every input file
InitRead ==
    /\ pc = "read_input_file"
    /\ args \in [file : InputFiles, prop_names : ReadPropNames]
    /\ row_type = NoRowType
    /\ haystack = EmptyDict
    /\ needle = {}
    /\ n_read = 0
    /\ ret = Ok(EmptyDict)
    /\ result = <<>>
    /\ stdout = <<>>
    /\ outfile = <<>>

NextRead == CallReadInputFile

SpecRead == InitRead /\ [][NextRead]_vars

\* create_row_type on every property specification
InitRow ==
    /\ pc = "create_row_type"
    /\ \E words \in SeqsUpTo(Words, MaxProps), sep \in Separators, id \in RowIds :
          args = [words |-> words, sep |-> sep, props |-> JoinWords(words, sep), id |-> id]
    /\ row_type = NoRowType
    /\ haystack = EmptyDict
    /\ needle = {}
    /\ n_read = 0
    /\ ret = Ok(EmptyDict)
    /\ result = <<>>
    /\ stdout = <<>>
    /\ outfile = <<>>

NextRow == CreateRowType

SpecRow == InitRow /\ [][NextRow]_vars

\* join_results on every haystack the readers return, with and without
\* include_none
InitJoin ==
    /\ pc = "read_needles"
    /\ args \in [include_none : BOOLEAN]
    /\ row_type \in MainRowTypes
    /\ haystack \in {r.val : r \in {x \in ReadResults(row_type.prop_names) : x.err = "none"}}
    /\ needle \in SUBSET JoinNeedleIds
    /\ n_read = 1
    /\ ret = Ok(EmptyDict)
    /\ result = <<>>
    /\ stdout = <<>>
    /\ outfile = <<>>

NextJoin == CallJoin

SpecJoin == InitJoin /\ [][NextJoin]_vars

(***************************************************************************)
(* create_row_type (SpecRow)                                               *)
(***************************************************************************)
\* the words of the model that are legal Python identifiers and no keywords
C7_LegalNames == {ID, MW}

\* the requested properties in their given order, the ID column first and
\* every occurrence of it among them removed
C7_Requested == <<args.id>> \o SelectSeq(args.words, LAMBDA n : n # args.id)

\* the name at position k must be renamed: illegal, or met before
C7_Renamed(names, k) ==
    names[k] \notin C7_LegalNames \/ \E j \in 1..(k - 1) : names[j] = names[k]

\* the positional placeholder of the 0-based position i < 10
C7_Placeholder(i) == <<"_", DigitChars[i + 1]>>

\* C7 as stated: the column list the joiner and the writers use
\* (row_type._prop_names) is the ID column, then the other requested
\* properties in order without the ID column, each illegal name replaced by
\* its positional placeholder.
C7_Original ==
    pc = "read_haystack" =>
        /\ Len(row_type.prop_names) = Len(C7_Requested)
        /\ \A k \in 1..Len(row_type.prop_names) :
              row_type.prop_names[k] =
                  IF C7_Requested[k] \notin C7_LegalNames THEN C7_Placeholder(k - 1)
                  ELSE C7_Requested[k]

\* C7 amended: the column list the joiner and the writers use is the ID
\* column, then the other requested properties in order without the ID
\* column, every name as given; only the row type's field names have the
\* illegal and the repeated names replaced by their positional placeholders.
C7_ColumnList ==
    pc = "read_haystack" =>
        /\ row_type.prop_names = C7_Requested
        /\ Len(row_type.fields) = Len(C7_Requested)
        /\ \A k \in 1..Len(C7_Requested) :
              row_type.fields[k] =
                  IF C7_Renamed(C7_Requested, k) THEN C7_Placeholder(k - 1)
                  ELSE C7_Requested[k]

\* an illegal name and a repeated ID column were requested
C7_Witness ==
    /\ pc = "read_haystack"
    /\ args.words = <<M_W, ID>>
    /\ args.id = ID
    /\ row_type.prop_names = <<ID, M_W>>
    /\ row_type.fields = <<ID, <<"_", "1">>>>

(***************************************************************************)
(* parse_sdf (SpecRead)                                                    *)
(***************************************************************************)
SdfCalled == pc = "done" /\ args.file.ext # ".csv"

\* line i is read as a header: it matches, and the line before it was not a
\* header whose value it is
RECURSIVE C5_IsHeader(_, _)
C5_IsHeader(lines, i) ==
    /\ HeaderMatches(lines[i])
    /\ i = 1 \/ ~C5_IsHeader(lines, i - 1)

\* the properties of the file: the headers that have a value line
C5_Properties(lines) == {i \in 1..(Len(lines) - 1) : C5_IsHeader(lines, i)}

\* two properties of the same name under the same molecule block
C5_SameName(lines) ==
    \E i, j \in C5_Properties(lines) :
        /\ i < j
        /\ HeaderMol(lines[i]) = HeaderMol(lines[j])
        /\ HeaderProp(lines[i]) = HeaderProp(lines[j])

\* two properties of different names under the same molecule block
C5_TwoNames(lines) ==
    \E i, j \in C5_Properties(lines) :
        /\ HeaderMol(lines[i]) = HeaderMol(lines[j])
        /\ HeaderProp(lines[i]) # HeaderProp(lines[j])

\* C5 as stated: a file with two differently-named properties under the
\* same block (and no two of the same name) never raises; a file with two
\* identically-named properties under the same block raises the conflict.
C5_Original ==
    SdfCalled =>
        /\ C5_TwoNames(args.file.content) /\ ~C5_SameName(args.file.content)
              => ret.err = "none"
        /\ C5_SameName(args.file.content)
              => ret.err = "ValueError: Conflicting property name"

\* C5 amended: a file whose properties under the same block all differ in
\* name never raises the conflicting-property-name error (it may raise the
\* ID mismatch or the end of input); a file with two identically-named
\* properties under the same block always raises it.
C5_Conflict ==
    SdfCalled =>
        (C5_SameName(args.file.content)
            <=> ret.err = "ValueError: Conflicting property name")

\* MW is given twice for molecule 2, after its ID
C5_Witness ==
    /\ SdfCalled
    /\ Len(args.file.content) = MaxSdfLines
    /\ C5_SameName(args.file.content)
    /\ ret.err = "ValueError: Conflicting property name"

\* the file's last line is read as a header: its value line is missing
C6_NoValue(lines) == lines # <<>> /\ C5_IsHeader(lines, Len(lines))

\* some block's value for the ID property differs from the block's key
C6_Mismatch(lines, id_prop) ==
    \E i \in C5_Properties(lines) :
        /\ HeaderProp(lines[i]) = id_prop
        /\ rstrip(lines[i + 1]) # HeaderMol(lines[i])

\* on success props.get(id_prop) is the key of every molecule
C6_Consistent(r, id_prop) ==
    r.err = "none" => \A mol \in DOMAIN r.val : Get(r.val[mol], id_prop, None) = mol

\* C6 as stated: a block whose ID property value differs from its key
\* always gives the ID mismatch error, whatever else the file holds; on
\* success every molecule's ID property value is its key.
C6_Original ==
    SdfCalled =>
        /\ C6_Mismatch(args.file.content, args.prop_names[1])
              => ret.err = "ValueError: ID mismatch"
        /\ C6_Consistent(ret, args.prop_names[1])

\* C6 amended: with such a block parse_sdf never returns: it raises the ID
\* mismatch error unless the conflicting property name or the missing value
\* line at the end of input ends the parse before the check; on success
\* props.get(id_prop) of every molecule is its key.
C6_IdMismatch ==
    SdfCalled =>
        /\ C6_Mismatch(args.file.content, args.prop_names[1])
              => ret.err =
                    IF C5_SameName(args.file.content)
                    THEN "ValueError: Conflicting property name"
                    ELSE IF C6_NoValue(args.file.content) THEN "StopIteration"
                    ELSE "ValueError: ID mismatch"
        /\ C6_Consistent(ret, args.prop_names[1])

\* molecule 2 records 10 as its ID beside another property, and the check
\* raises
C6_Witness ==
    /\ SdfCalled
    /\ C6_Mismatch(args.file.content, args.prop_names[1])
    /\ C5_TwoNames(args.file.content)
    /\ ret.err = "ValueError: ID mismatch"

(***************************************************************************)
(* read_csv (SpecRead)                                                     *)
(***************************************************************************)
CsvCalled == pc = "done" /\ args.file.ext = ".csv"

\* the column names the rows are read under, and the first data row
C8_FieldNames(rows, prop_names) ==
    IF rows[1] = <<>> \/ prop_names[1] \in Range(rows[1]) THEN rows[1] ELSE prop_names

C8_FirstData(rows, prop_names) ==
    IF rows[1] = <<>> \/ prop_names[1] \in Range(rows[1]) THEN 2 ELSE 1

\* the data rows: the rows after the header that are not blank lines
C8_DataRows(rows, prop_names) ==
    {i \in C8_FirstData(rows, prop_names)..Len(rows) : rows[i] # <<>>}

\* the value of row i in the ID column (the last column of that name); None
\* when the row is too short to have it
C8_IdValue(rows, prop_names, i) ==
    LET fn == C8_FieldNames(rows, prop_names)
        col == Max({c \in 1..Len(fn) : fn[c] = prop_names[1]})
    IN IF col <= Len(rows[i]) THEN rows[i][col] ELSE None

JoinCalled == pc # "read_needles"

JoinReturned == pc = "print"

\* the needle identifiers that are keys of the haystack
Found == needle \cap DOMAIN haystack

\* the result table maps mol to the row of the haystack's values, '' for a
\* column the record does not have
C1_RowOf(mol) ==
    \E k \in 1..Len(result) :
        /\ result[k].mol = mol
        /\ ~result[k].is_none
        /\ Len(result[k].row) = Len(row_type.prop_names)
        /\ \A c \in 1..Len(row_type.prop_names) :
              result[k].row[c] = Get(haystack[mol], row_type.prop_names[c], EmptyStr)

\* no cell of a found record is None (a CSV row shorter than the header
\* has None cells, and int(None, base=10) is a TypeError)
C1_CellsAreStrings ==
    \A mol \in Found, c \in 1..Len(row_type.prop_names) :
        Get(haystack[mol], row_type.prop_names[c], EmptyStr) # None

\* C1: for every haystack, needle and column list join_results returns a
\* table that maps each needle identifier found in the haystack to the row
\* of the haystack's values per requested column, '' for an absent column
\* (stated here for the haystacks whose found records hold strs only).
C1_Claim ==
    JoinCalled /\ ~args.include_none /\ C1_CellsAreStrings =>
        /\ ret.err = "none"
        /\ \A mol \in Found : C1_RowOf(mol)

\* every column name is a field name as it is, and no cell of a found
\* record is None: row_type(**...) and int(cell, base=10) raise nothing
C3_RowsDoNotRaise == row_type.fields = row_type.prop_names /\ C1_CellsAreStrings

\* C3: with include_none=True join_results returns a table in which every
\* needle identifier absent from the haystack is mapped to None, beside the
\* rows of the identifiers found.
C3_Claim ==
    JoinCalled /\ args.include_none /\ C3_RowsDoNotRaise =>
        /\ ret.err = "none"
        /\ \A mol \in needle \ DOMAIN haystack :
              \E k \in 1..Len(result) : result[k].mol = mol /\ result[k].is_none
        /\ \A mol \in Found : C1_RowOf(mol)

\* the cells of the model that int(cell, base=10) parses, and their values
C4_IsNumber(cell) == cell \in {S2, S10}

C4_Number(cell) == IF cell = S2 THEN 2 ELSE 10

\* cell a comes before cell b: numerically when both are numbers, a number
\* before any other str (Python 2), two other strs byte-wise
C4_CellBefore(a, b) ==
    IF C4_IsNumber(a) /\ C4_IsNumber(b) THEN C4_Number(a) < C4_Number(b)
    ELSE IF C4_IsNumber(a) \/ C4_IsNumber(b) THEN C4_IsNumber(a)
    ELSE StrLess(a, b)

\* the ID values in their order: None before every str, strs byte-wise
C4_IdNotAfter(a, b) ==
    \/ a = b
    \/ a = None
    \/ a # None /\ b # None /\ StrLess(a, b)

\* row r may stand before row s: at the first non-ID column where they
\* differ r's cell comes first; equal on all of them, r's ID is not after s's
C4_RowNotAfter(r, s) ==
    LET differ == {c \in 2..Len(r) : r[c] # s[c]}
    IN IF differ = {} THEN C4_IdNotAfter(r[1], s[1])
       ELSE C4_CellBefore(r[Min(differ)], s[Min(differ)])

\* C4: the rows join_results returns are ordered by the non-ID columns in
\* column order, a cell that parses as a base-10 integer compared
\* numerically ("2" before "10"), and rows equal on all non-ID columns by
\* their ID column value.
C4_Ordered ==
    JoinReturned =>
        \A k, l \in 1..Len(result) :
            k < l => C4_RowNotAfter(result[k].row, result[l].row)

\* the row with MW "2" stands before the row with MW "10", and two rows with
\* the same MW stand in the order of their IDs
C4_Witness ==
    /\ JoinReturned
    /\ Len(result) = 2
    /\ row_type.prop_names = <<ID, MW>>
    /\ result[1].row = <<S10, S2>>
    /\ result[2].row = <<S2, S10>>

\* C10: the table join_results returns does not depend on the order the
\* identifiers are iterated in: every order gives the same sequence of
\* rows, and the sort keys of the rows are pairwise distinct.
C10_Deterministic ==
    JoinReturned =>
        /\ \A order \in Perms(JoinKeys(haystack, needle, args.include_none)) :
              join_results(haystack, needle, row_type, args.include_none, order)
                  = Ok(result)
        /\ \A k, l \in 1..Len(result) :
              k # l => sort_key(result[k]).val # sort_key(result[l]).val

\* two rows equal on the non-ID column, told apart by their IDs
C10_Witness ==
    /\ JoinReturned
    /\ Len(result) = 2
    /\ row_type.prop_names = <<ID, MW>>
    /\ result[1].row = <<S10, S2>>
    /\ result[2].row = <<S2, S2>>

(***************************************************************************)
(* main (Spec)                                                             *)
(***************************************************************************)
\* C2: the identifiers of main's result table are exactly the identifiers
\* of the haystack that are in the union of the needle files' identifiers,
\* one row each; the printed table has these rows.
C2_Intersection ==
    pc \in {"print", "write", "done"} =>
        /\ {result[k].mol : k \in 1..Len(result)} = DOMAIN haystack \cap needle
        /\ Len(result) = Cardinality(DOMAIN haystack \cap needle)
        /\ \A k \in 1..Len(result) : ~result[k].is_none
        /\ stdout # <<>> => stdout[1].total = Cardinality(DOMAIN haystack \cap needle)

\* two needle files read, a needle identifier that the haystack lacks, a
\* haystack identifier that no needle file has, and a row found
C2_Witness ==
    /\ pc = "done"
    /\ n_read = 2
    /\ needle \ DOMAIN haystack # {}
    /\ DOMAIN haystack \ needle # {}
    /\ Len(result) = 1
    /\ stdout # <<>>

\* the exceptions of parsing and validating an SDF file
C9_ParseErrors ==
    {"StopIteration", "ValueError: Conflicting property name", "ValueError: ID mismatch"}

\* C9: when the haystack file or a needle file fails to parse or validate,
\* the run has ended with nothing printed and nothing written; the table is
\* printed only after the haystack, one needle file or more and the join,
\* and the output file is written only after the print.
C9_NoPartialResults ==
    /\ ret.err \in C9_ParseErrors =>
          pc = "crashed" /\ result = <<>> /\ stdout = <<>> /\ outfile = <<>>
    /\ pc \in {"create_row_type", "read_haystack", "read_needles"} =>
          result = <<>> /\ stdout = <<>> /\ outfile = <<>>
    /\ stdout # <<>> => pc \in {"write", "done"} /\ n_read >= 1
    /\ outfile # <<>> => pc = "done" /\ stdout # <<>>

\* the second needle file fails after the haystack and a needle file were read
C9_Witness ==
    /\ pc = "crashed"
    /\ ret.err \in C9_ParseErrors
    /\ n_read = 2
    /\ DOMAIN haystack # {}
    /\ needle # {}
    /\ stdout = <<>>
    /\ outfile = <<>>

====
